---- MODULE Spec2Model ----
(***************************************************************************)
(* A model of the catalog engine of src/src/metadata.rs: the directory     *)
(* scanner (find_files), the reconciler (import, clean_up), the derivers   *)
(* (extract_metadata_from_epub, extract_metadata_from_filename), the       *)
(* query matcher (make_query, Info::is_match) and the sort engine (sort    *)
(* and its comparators).                                                   *)
(*                                                                         *)
(* Representation.  A Rust String is a sequence of one-character strings   *)
(* (Str("ab") = <<"a", "b">>), a PathBuf is the sequence of its component  *)
(* names, an Option<T> is a sequence of length at most one (<<>> is None,  *)
(* <<x>> is Some(x)), a Vec is a sequence and a BTreeSet / FnvHashSet is a *)
(* set.  An Ordering is one of "Less", "Equal", "Greater".  A character   *)
(* outside ASCII is written by its entity name: "eacute" is the one        *)
(* character U+00E9, "aelig" is U+00E6, "oelig" is U+0153.                 *)
(***************************************************************************)
EXTENDS Naturals, Integers, Sequences, FiniteSets, TLC

VARIABLES
    op,             \* the operation that ran last ("none" before any)
    fs,             \* the filesystem under the library root
    settings,       \* the ImportSettings argument
    metadata,       \* the catalog (the Metadata argument, mutated in place)
    before,         \* the catalog as it was when the last operation was called
    imported,       \* Result<Metadata, Error> of the last import
    sort_method,    \* argument of the last sort
    reverse_order,  \* argument of the last sort
    text,           \* argument of make_query
    query,          \* Option<Regex> returned by make_query
    matched,        \* Option<bool>: the last result of Info::is_match
    docs            \* what the container parser yields for each file path

vars == <<op, fs, settings, metadata, before, imported, sort_method,
          reverse_order, text, query, matched, docs>>

-----------------------------------------------------------------------------
(* Strings, options, sequences *)

Str(s) == [i \in 1..Len(s) |-> SubSeq(s, i, i)]

None == <<>>
Some(x) == <<x>>

Range(s) == {s[i] : i \in 1..Len(s)}

Reverse(s) == [i \in 1..Len(s) |-> s[Len(s) + 1 - i]]

SeqsUpTo(S, n) == UNION {[1..k -> S] : k \in 0..n}

\* Unicode scalar values of the characters the model uses; Rust compares
\* strings bytewise in UTF-8, which is the order of the scalar values.
CodePoint ==
    (" " :> 32) @@ ("'" :> 39) @@ ("(" :> 40) @@ (")" :> 41) @@ ("," :> 44) @@
    ("-" :> 45) @@ ("." :> 46) @@ ("/" :> 47) @@ ("0" :> 48) @@ ("1" :> 49) @@
    ("5" :> 53) @@ ("6" :> 54) @@ ("9" :> 57) @@
    ("A" :> 65) @@ ("C" :> 67) @@ ("D" :> 68) @@ ("E" :> 69) @@ ("F" :> 70) @@
    ("H" :> 72) @@ ("L" :> 76) @@ ("N" :> 78) @@ ("S" :> 83) @@ ("T" :> 84) @@
    ("Z" :> 90) @@ ("_" :> 95) @@
    ("a" :> 97) @@ ("b" :> 98) @@ ("c" :> 99) @@ ("d" :> 100) @@ ("e" :> 101) @@
    ("f" :> 102) @@ ("g" :> 103) @@ ("h" :> 104) @@ ("i" :> 105) @@
    ("k" :> 107) @@ ("l" :> 108) @@ ("n" :> 110) @@ ("o" :> 111) @@
    ("p" :> 112) @@ ("r" :> 114) @@ ("s" :> 115) @@ ("t" :> 116) @@
    ("u" :> 117) @@ ("v" :> 118) @@ ("x" :> 120) @@ ("y" :> 121) @@
    ("Eacute" :> 201) @@ ("aelig" :> 230) @@ ("eacute" :> 233) @@
    ("oelig" :> 339)

CmpInt(a, b) == IF a < b THEN "Less" ELSE IF a > b THEN "Greater" ELSE "Equal"

\* Ordering::reverse
OrdReverse(o) == IF o = "Less" THEN "Greater" ELSE IF o = "Greater" THEN "Less" ELSE "Equal"

\* Lexicographic comparison of two sequences whose elements are compared by
\* their rank under rk (str::cmp with rk = CodePoint).
RECURSIVE CmpLex(_, _, _)
CmpLex(a, b, rk) ==
    IF a = <<>> /\ b = <<>> THEN "Equal"
    ELSE IF a = <<>> THEN "Less"
    ELSE IF b = <<>> THEN "Greater"
    ELSE IF rk[Head(a)] < rk[Head(b)] THEN "Less"
    ELSE IF rk[Head(a)] > rk[Head(b)] THEN "Greater"
    ELSE CmpLex(Tail(a), Tail(b), rk)

CmpStr(a, b) == CmpLex(a, b, CodePoint)

\* char::is_whitespace on the characters of the model
IsWhitespace(c) == c = " "

-----------------------------------------------------------------------------
(* Records: Info, FileInfo, ReaderInfo *)

\* FileInfo::default
DefaultFileInfo == [path |-> <<>>, kind |-> <<>>, size |-> 0]

\* Info::default; now is the value of Local::now().  The fields edition,
\* volume, isbn and toc are read and written by none of the modelled
\* operations and are left out.
DefaultInfo(now) ==
    [title |-> <<>>, subtitle |-> <<>>, author |-> <<>>, year |-> <<>>,
     language |-> <<>>, publisher |-> <<>>, series |-> <<>>, number |-> <<>>,
     categories |-> {}, file |-> DefaultFileInfo, reader |-> None,
     added |-> now]

\* The fields of ReaderInfo the modelled operations read.
ReaderInfo(opened, current_page, pages_count, finished) ==
    [opened |-> opened, current_page |-> current_page,
     pages_count |-> pages_count, finished |-> finished]

\* The bibliographic fields a deriver may write.
BibFields == {"title", "subtitle", "author", "year", "language", "publisher",
              "series", "number"}

Paths(md) == {md[i].file.path : i \in 1..Len(md)}

\* Path::file_name as Option<&OsStr>
file_name(path) == IF path = <<>> THEN None ELSE Some(path[Len(path)])

\* Path::parent of a relative path
parent(path) == IF path = <<>> THEN None ELSE Some(SubSeq(path, 1, Len(path) - 1))

\* Path::to_str / to_string_lossy: the components joined by MAIN_SEPARATOR
RECURSIVE PathString(_)
PathString(path) ==
    IF path = <<>> THEN <<>>
    ELSE IF Len(path) = 1 THEN path[1]
    ELSE path[1] \o <<"/">> \o PathString(Tail(path))

-----------------------------------------------------------------------------
(* The filesystem *)

TRASH_NAME == Str(".trash")
RESERVED_DIRECTORIES == {TRASH_NAME}

\* The directories under the root (the root is the empty relative path) and
\* the files that may be present in them.
DirUniverse ==
    {<<>>, <<Str("d")>>, <<Str("d"), Str("s")>>, <<Str(".h")>>, <<TRASH_NAME>>}

FileUniverse ==
    {<<Str("a.epub")>>, <<Str("b.pdf")>>, <<Str(".c.epub")>>,
     <<Str("d"), Str("s"), Str("e.epub")>>, <<Str(".h"), Str("f.epub")>>,
     <<TRASH_NAME, Str("g.epub")>>}

\* A path no file of the universe has: a catalog record whose file is gone.
GonePath == <<Str("z.epub")>>

\* Position of the last occurrence of c in s, 0 when there is none.
LastIndexOf(s, c) ==
    LET hits == {i \in 1..Len(s) : s[i] = c}
    IN  IF hits = {} THEN 0 ELSE CHOOSE i \in hits : \A j \in hits : j <= i

\* crate::document::file_kind, by the file extension: the text after the last
\* dot of the name, when that dot is not the first character.
file_kind(path) ==
    LET name == path[Len(path)]
        dot  == LastIndexOf(name, ".")
    IN  IF dot <= 1 THEN <<>> ELSE SubSeq(name, dot + 1, Len(name))

\* entry.metadata().len(): the size of the file at path
file_size(path) == Len(path[Len(path)])

\* Path::exists of dir.join(path)
Exists(f, path) == path \in f.files \/ path \in DirUniverse

IsChildOf(p, dir) == Len(p) = Len(dir) + 1 /\ SubSeq(p, 1, Len(dir)) = dir

\* The set s as the sequence sorted by the last path component, ascending
\* when asc and descending otherwise.
RECURSIVE SortedByName(_, _)
SortedByName(s, asc) ==
    IF s = {} THEN <<>>
    ELSE LET first == CHOOSE p \in s : \A q \in s :
                          LET c == CmpStr(p[Len(p)], q[Len(q)])
                          IN  IF asc THEN c # "Greater" ELSE c # "Less"
         IN  <<first>> \o SortedByName(s \ {first}, asc)

\* fs::read_dir(dir): Err (ok = FALSE) when the directory cannot be read,
\* else its entries.  The order of the entries is the filesystem's; asc picks
\* one of two orders.
read_dir(f, dir, asc) ==
    IF dir \in f.unreadable
    THEN [ok |-> FALSE, entries |-> <<>>]
    ELSE [ok |-> TRUE,
          entries |-> SortedByName({p \in DirUniverse \cup f.files : IsChildOf(p, dir)}, asc)]

\* find_files(root, dir, traverse_hidden) as Result<Vec<FileInfo>, Error>:
\* [ok |-> FALSE] is Err, which carries no file descriptor.
RECURSIVE find_files(_, _, _, _)
RECURSIVE find_files_loop(_, _, _, _, _, _)
find_files_loop(f, entries, i, result, traverse_hidden, asc) ==
    IF i > Len(entries) THEN [ok |-> TRUE, files |-> result]
    ELSE LET path == entries[i]
             name == path[Len(path)]
         IN  IF path \in DirUniverse
             THEN IF (~traverse_hidden /\ name[1] = ".") \/ name \in RESERVED_DIRECTORIES
                  THEN find_files_loop(f, entries, i + 1, result, traverse_hidden, asc)
                  ELSE LET sub == find_files(f, path, traverse_hidden, asc)
                       IN  IF ~sub.ok THEN [ok |-> FALSE, files |-> <<>>]
                           ELSE find_files_loop(f, entries, i + 1, result \o sub.files,
                                                traverse_hidden, asc)
             ELSE IF name[1] = "."
                  THEN find_files_loop(f, entries, i + 1, result, traverse_hidden, asc)
                  ELSE find_files_loop(f, entries, i + 1,
                           Append(result, [path |-> path, kind |-> file_kind(path),
                                           size |-> file_size(path)]),
                           traverse_hidden, asc)

\* find_files taking a directory that cannot be read for an empty one
find_files_IgnoringReadError(f, dir, traverse_hidden, asc) ==
    find_files_loop(f, read_dir(f, dir, asc).entries, 1, <<>>, traverse_hidden, asc)

find_files(f, dir, traverse_hidden, asc) ==
    LET rd == read_dir(f, dir, asc)
    IN  IF ~rd.ok THEN [ok |-> FALSE, files |-> <<>>]
        ELSE find_files_loop(f, rd.entries, 1, <<>>, traverse_hidden, asc)

-----------------------------------------------------------------------------
(* The reconciler: import, clean_up *)

\* symbolic_path::PATH_SEPARATOR
PATH_SEPARATOR == "."

\* str::replace of one character by a string
RECURSIVE ReplaceChar(_, _, _)
ReplaceChar(s, c, by) ==
    IF s = <<>> THEN <<>>
    ELSE (IF Head(s) = c THEN by ELSE <<Head(s)>>) \o ReplaceChar(Tail(s), c, by)

\* The category import derives from the parent directory of a file.
PathCategory(p) ==
    ReplaceChar(ReplaceChar(PathString(p), PATH_SEPARATOR, <<>>), "/", <<PATH_SEPARATOR>>)

\* The record import creates for a scanned file.
ImportedInfo(file_info, path_as_category, now) ==
    LET info == [DefaultInfo(now) EXCEPT !.file = file_info]
        p    == parent(info.file.path)
    IN  IF path_as_category /\ p # None /\ PathCategory(p[1]) # <<>>
        THEN [info EXCEPT !.categories = {PathCategory(p[1])}]
        ELSE info

\* import without the test of the known paths
ImportNew_IgnoringKnown(known, st, file_info) ==
    file_info.kind \in st.allowed_kinds

\* import without the test of the allow-list
ImportNew_IgnoringKind(known, st, file_info) ==
    file_info.path \notin known

ImportNew(known, st, file_info) ==
    file_info.path \notin known /\ file_info.kind \in st.allowed_kinds

RECURSIVE import_loop(_, _, _, _, _)
import_loop(files, i, known, st, now) ==
    IF i > Len(files) THEN <<>>
    ELSE (IF ImportNew(known, st, files[i])
          THEN <<ImportedInfo(files[i], "Path" \in st.category_providers, now)>>
          ELSE <<>>) \o import_loop(files, i + 1, known, st, now)

\* import(dir, metadata, settings) as Result<Metadata, Error>
import(f, md, st, asc, now) ==
    LET files == find_files(f, <<>>, st.traverse_hidden, asc)
    IN  IF ~files.ok THEN [ok |-> FALSE, metadata |-> <<>>]
        ELSE [ok |-> TRUE, metadata |-> import_loop(files.files, 1, Paths(md), st, now)]

\* clean_up retaining the records whose file is missing
Retained_Inverted(f, info) == ~Exists(f, info.file.path)

\* The closure of clean_up: whether a record is retained.
Retained(f, info) == Exists(f, info.file.path)

\* Vec::retain
RECURSIVE Retain(_, _)
Retain(f, md) ==
    IF md = <<>> THEN <<>>
    ELSE (IF Retained(f, Head(md)) THEN <<Head(md)>> ELSE <<>>) \o Retain(f, Tail(md))

\* clean_up(dir, metadata): the catalog it leaves
clean_up(f, md) == Retain(f, md)

-----------------------------------------------------------------------------
(* The sort engine: Info::status, the comparators, sort *)

\* Info::status.  Reading carries current_page as f32 / pages_count as f32,
\* kept as the pair of the two integers: both conversions are exact below
\* 2^24 and the rounding of the division is monotonic, so two quotients of
\* integers this small compare as the exact fractions do.
status(info) ==
    IF info.reader # None
    THEN LET r == info.reader[1]
         IN  IF r.finished THEN [tag |-> "Finished"]
             ELSE [tag |-> "Reading", num |-> r.current_page, den |-> r.pages_count]
    ELSE [tag |-> "New"]

\* f32::partial_cmp of n1/d1 and n2/d2 as Option<Ordering>: 0/0 is NaN, which
\* compares with nothing, and n/0 with n > 0 is +infinity.
IsNaN(n, d) == n = 0 /\ d = 0
partial_cmp(n1, d1, n2, d2) ==
    IF IsNaN(n1, d1) \/ IsNaN(n2, d2) THEN None
    ELSE IF d1 = 0 /\ d2 = 0 THEN Some("Equal")
    ELSE IF d1 = 0 THEN Some("Greater")
    ELSE IF d2 = 0 THEN Some("Less")
    ELSE Some(CmpInt(n1 * d2, n2 * d1))

\* Option<Ordering>::unwrap_or
unwrap_or(o, default) == IF o = None THEN default ELSE o[1]

sort_opened(i1, i2) ==
    IF i1.reader = None /\ i2.reader = None THEN "Equal"
    ELSE IF i1.reader = None THEN "Less"
    ELSE IF i2.reader = None THEN "Greater"
    ELSE CmpInt(i1.reader[1].opened, i2.reader[1].opened)

sort_pages(i1, i2) ==
    IF i1.reader = None /\ i2.reader = None THEN "Equal"
    ELSE IF i1.reader = None THEN "Less"
    ELSE IF i2.reader = None THEN "Greater"
    ELSE CmpInt(i1.reader[1].pages_count, i2.reader[1].pages_count)

sort_added(i1, i2) == CmpInt(i1.added, i2.added)

\* Info::author
author(info) == IF info.author = <<>> THEN Str("Unknown Author") ELSE info.author

\* s.split(c).next(): the text before the first c
FirstSegment(s, c) ==
    LET hits == {i \in 1..Len(s) : s[i] = c}
    IN  IF hits = {} THEN s
        ELSE SubSeq(s, 1, (CHOOSE i \in hits : \A j \in hits : i <= j) - 1)

\* s.split(c).last(): the text after the last c
LastSegment(s, c) == SubSeq(s, LastIndexOf(s, c) + 1, Len(s))

\* Info::alphabetic_author
alphabetic_author(info) == LastSegment(FirstSegment(author(info), ","), " ")

\* TITLE_PREFIXES: for a language, the alternatives of its pattern in the
\* order the pattern tries them, each a literal that a whitespace character
\* (\s) follows when ws.  An optional letter (An?, Les?, Une?, Des?) is the
\* longer literal tried before the shorter one.
Prefix(lit, ws) == [lit |-> Str(lit), ws |-> ws]
TITLE_PREFIXES ==
    [language \in {<<>>, Str("french")} |->
        IF language = <<>>
        THEN <<Prefix("The", TRUE), Prefix("An", TRUE), Prefix("A", TRUE)>>
        ELSE <<Prefix("Les", TRUE), Prefix("Le", TRUE), Prefix("La", TRUE),
               [lit |-> <<"L", "'">>, ws |-> FALSE],
               [lit |-> <<"L", "rsquo">>, ws |-> FALSE],
               Prefix("Une", TRUE), Prefix("Un", TRUE), Prefix("Des", TRUE),
               Prefix("De", TRUE), Prefix("Du", TRUE)>>]

\* Where the match of one alternative at the start of s ends, 0 for no match.
PrefixEnd(s, pre) ==
    LET n == Len(pre.lit)
    IN  IF Len(s) >= n /\ SubSeq(s, 1, n) = pre.lit
        THEN IF ~pre.ws THEN n
             ELSE IF Len(s) > n /\ IsWhitespace(s[n + 1]) THEN n + 1 ELSE 0
        ELSE 0

\* re.find(&self.title) anchored at the start: the end of the first
\* alternative that matches, 0 when none does.
RECURSIVE FindPrefix(_, _, _)
FindPrefix(s, pres, i) ==
    IF i > Len(pres) THEN 0
    ELSE IF PrefixEnd(s, pres[i]) > 0 THEN PrefixEnd(s, pres[i])
    ELSE FindPrefix(s, pres, i + 1)

\* Info::alphabetic_title
alphabetic_title(info) ==
    LET start == IF info.language \in DOMAIN TITLE_PREFIXES
                 THEN FindPrefix(info.title, TITLE_PREFIXES[info.language], 1)
                 ELSE 0
    IN  SubSeq(info.title, start + 1, Len(info.title))

sort_author(i1, i2) == CmpStr(alphabetic_author(i1), alphabetic_author(i2))

sort_title(i1, i2) == CmpStr(alphabetic_title(i1), alphabetic_title(i2))

\* sort_progress with the order of Finished and New exchanged
sort_progress_NewFirst(i1, i2) ==
    LET s1 == status(i1)
        s2 == status(i2)
    IN  IF s1.tag = "Reading" /\ s2.tag = "Reading"
        THEN unwrap_or(partial_cmp(s1.num, s1.den, s2.num, s2.den), "Equal")
        ELSE IF s1.tag = s2.tag THEN "Equal"
        ELSE IF s1.tag = "New" THEN "Less"
        ELSE IF s2.tag = "New" THEN "Greater"
        ELSE IF s1.tag = "Finished" THEN "Less"
        ELSE "Greater"

\* Ordering: Finished < New < Reading
sort_progress(i1, i2) ==
    LET s1 == status(i1)
        s2 == status(i2)
    IN  IF s1.tag = "Finished" /\ s2.tag = "Finished" THEN "Equal"
        ELSE IF s1.tag = "New" /\ s2.tag = "New" THEN "Equal"
        ELSE IF s1.tag = "New" /\ s2.tag = "Finished" THEN "Greater"
        ELSE IF s1.tag = "Finished" /\ s2.tag = "New" THEN "Less"
        ELSE IF s1.tag = "New" /\ s2.tag = "Reading" THEN "Less"
        ELSE IF s1.tag = "Reading" /\ s2.tag = "New" THEN "Greater"
        ELSE IF s1.tag = "Finished" /\ s2.tag = "Reading" THEN "Less"
        ELSE IF s1.tag = "Reading" /\ s2.tag = "Finished" THEN "Greater"
        ELSE unwrap_or(partial_cmp(s1.num, s1.den, s2.num, s2.den), "Equal")

sort_size(i1, i2) == CmpInt(i1.file.size, i2.file.size)

sort_kind(i1, i2) == CmpStr(i1.file.kind, i2.file.kind)

sort_year(i1, i2) == CmpStr(i1.year, i2.year)

\* Option<&OsStr>::cmp: None is less than Some
CmpOptionStr(a, b) ==
    IF a = None /\ b = None THEN "Equal"
    ELSE IF a = None THEN "Less"
    ELSE IF b = None THEN "Greater"
    ELSE CmpStr(a[1], b[1])

sort_filename(i1, i2) == CmpOptionStr(file_name(i1.file.path), file_name(i2.file.path))

\* Path::cmp: component by component
RECURSIVE CmpPath(_, _)
CmpPath(a, b) ==
    IF a = <<>> /\ b = <<>> THEN "Equal"
    ELSE IF a = <<>> THEN "Less"
    ELSE IF b = <<>> THEN "Greater"
    ELSE IF CmpStr(Head(a), Head(b)) # "Equal" THEN CmpStr(Head(a), Head(b))
    ELSE CmpPath(Tail(a), Tail(b))

sort_filepath(i1, i2) == CmpPath(i1.file.path, i2.file.path)

SortMethods == {"Opened", "Added", "Progress", "Author", "Title", "Year",
                "Size", "Kind", "Pages", "FileName", "FilePath"}

\* The comparator sort selects for a sort method.
sort_fn(method, a, b) ==
    CASE method = "Opened" -> sort_opened(a, b)
      [] method = "Added" -> sort_added(a, b)
      [] method = "Progress" -> sort_progress(a, b)
      [] method = "Author" -> sort_author(a, b)
      [] method = "Title" -> sort_title(a, b)
      [] method = "Year" -> sort_year(a, b)
      [] method = "Size" -> sort_size(a, b)
      [] method = "Kind" -> sort_kind(a, b)
      [] method = "Pages" -> sort_pages(a, b)
      [] method = "FileName" -> sort_filename(a, b)
      [] method = "FilePath" -> sort_filepath(a, b)

\* The comparator handed to sort_by.
Compare(method, reverse, a, b) ==
    IF reverse THEN OrdReverse(sort_fn(method, a, b)) ELSE sort_fn(method, a, b)

\* slice::sort_by is a stable sort: with a comparator that is a total
\* preorder its result is the one that insertion from the left produces,
\* each element placed after the elements it is not less than.
RECURSIVE InsertSorted(_, _, _, _, _)
InsertSorted(sorted, j, x, method, reverse) ==
    IF j >= 1 /\ Compare(method, reverse, x, sorted[j]) = "Less"
    THEN InsertSorted(sorted, j - 1, x, method, reverse)
    ELSE SubSeq(sorted, 1, j) \o <<x>> \o SubSeq(sorted, j + 1, Len(sorted))

RECURSIVE sort_by(_, _, _)
sort_by(md, method, reverse) ==
    IF md = <<>> THEN <<>>
    ELSE LET front == sort_by(SubSeq(md, 1, Len(md) - 1), method, reverse)
         IN  InsertSorted(front, Len(front), md[Len(md)], method, reverse)

\* sort that ignores reverse_order
sort_IgnoringReverse(md, method, reverse) == sort_by(md, method, FALSE)

\* sort(md, sort_method, reverse_order): the catalog it leaves
sort(md, method, reverse) == sort_by(md, method, reverse)

-----------------------------------------------------------------------------
(* The query matcher: make_query, Info::is_match *)

\* Simple case folding of the characters of the model, as (?i) applies it.
Fold(c) ==
    CASE c = "A" -> "a"
      [] c = "C" -> "c"
      [] c = "E" -> "e"
      [] c = "F" -> "f"
      [] c = "O" -> "o"
      [] c = "Eacute" -> "eacute"
      [] c = "AElig" -> "aelig"
      [] c = "OElig" -> "oelig"
      [] OTHER -> c

\* The outcome of a failed parse, and of a parse that reached position next
\* of the pattern with the matches in progress ending at the positions ends.
RegexError == [ok |-> FALSE, next |-> 0, ends |-> {}]
RegexAt(next, ends) == [ok |-> TRUE, next |-> next, ends |-> ends]

\* The positions of s one character after a position of cur, over the
\* characters that satisfy Accepts.
Step(s, cur, Accepts(_)) == {k + 1 : k \in {j \in cur : j < Len(s) /\ Accepts(s[j + 1])}}

\* First position at or after i where p holds c, 0 when there is none.
IndexFrom(p, i, c) ==
    LET hits == {k \in i..Len(p) : p[k] = c}
    IN  IF hits = {} THEN 0 ELSE CHOOSE k \in hits : \A j \in hits : k <= j

\* The regex crate on the syntax make_query can produce: the flag group
\* (?i), literals, the dot, bracketed classes of literal characters, groups
\* and alternations.  RegexAlt parses an alternation of p from position i
\* and runs it on the text s from the positions cur (positions are counts of
\* characters consumed); RegexConcat does so for one branch.  A group that
\* is not closed, a closing parenthesis with no group open and a class that
\* is not closed are syntax errors.
RECURSIVE RegexAlt(_, _, _, _)
RECURSIVE RegexConcat(_, _, _, _)
RegexConcat(p, i, s, cur) ==
    IF i > Len(p) \/ p[i] \in {"|", ")"} THEN RegexAt(i, cur)
    ELSE IF i + 3 <= Len(p) /\ SubSeq(p, i, i + 3) = <<"(", "?", "i", ")">>
    THEN RegexConcat(p, i + 4, s, cur)
    ELSE IF p[i] = "("
    THEN LET g == RegexAlt(p, i + 1, s, cur)
         IN  IF g.ok /\ g.next <= Len(p) /\ p[g.next] = ")"
             THEN RegexConcat(p, g.next + 1, s, g.ends)
             ELSE RegexError
    ELSE IF p[i] = "["
    THEN LET close == IndexFrom(p, i + 2, "]")
         IN  IF close = 0 THEN RegexError
             ELSE LET InClass(c) == \E k \in (i + 1)..(close - 1) : Fold(p[k]) = Fold(c)
                  IN  RegexConcat(p, close + 1, s, Step(s, cur, InClass))
    ELSE IF p[i] = "."
    THEN LET AnyChar(c) == TRUE
         IN  RegexConcat(p, i + 1, s, Step(s, cur, AnyChar))
    ELSE LET Literal(c) == Fold(p[i]) = Fold(c)
         IN  RegexConcat(p, i + 1, s, Step(s, cur, Literal))

RegexAlt(p, i, s, cur) ==
    LET branch == RegexConcat(p, i, s, cur)
    IN  IF ~branch.ok THEN RegexError
        ELSE IF branch.next <= Len(p) /\ p[branch.next] = "|"
        THEN LET rest == RegexAlt(p, branch.next + 1, s, cur)
             IN  IF ~rest.ok THEN RegexError
                 ELSE RegexAt(rest.next, branch.ends \cup rest.ends)
        ELSE branch

\* Regex::new(pattern) as Result<Regex, Error>
Regex_new(pattern) ==
    LET r == RegexAlt(pattern, 1, <<>>, {})
    IN  IF r.ok /\ r.next = Len(pattern) + 1
        THEN [ok |-> TRUE, regex |-> pattern]
        ELSE [ok |-> FALSE, regex |-> <<>>]

\* Regex::is_match: the pattern matches somewhere in s
Regex_is_match(regex, s) == RegexAlt(regex, 1, s, 0..Len(s)).ends # {}

\* any.is_match(text) for the pattern ^(\.*|\s)$: the text is dots only
\* (or empty), or is one whitespace character.
any_is_match(t) ==
    \/ \A i \in 1..Len(t) : t[i] = "."
    \/ Len(t) = 1 /\ IsWhitespace(t[1])

\* str::replace of a string by a string: the occurrences from the left that
\* do not overlap
RECURSIVE ReplaceStr(_, _, _)
ReplaceStr(s, from, by) ==
    IF Len(s) < Len(from) THEN s
    ELSE IF SubSeq(s, 1, Len(from)) = from
    THEN by \o ReplaceStr(SubSeq(s, Len(from) + 1, Len(s)), from, by)
    ELSE <<Head(s)>> \o ReplaceStr(Tail(s), from, by)

ClassA == <<"[", "a", "aacute", "agrave", "acirc", "auml", "]">>
ClassE == <<"[", "e", "eacute", "egrave", "ecirc", "euml", "]">>
ClassI == <<"[", "i", "iacute", "igrave", "icirc", "iuml", "]">>
ClassO == <<"[", "o", "oacute", "ograve", "ocirc", "ouml", "]">>
ClassU == <<"[", "u", "uacute", "ugrave", "ucirc", "uuml", "]">>
ClassC == <<"[", "c", "ccedil", "]">>
AltAE == <<"(", "a", "e", "|", "aelig", ")">>
AltOE == <<"(", "o", "e", "|", "oelig", ")">>

\* The chain of replace calls of make_query
Rewrite(t) ==
    ReplaceStr(ReplaceStr(
        ReplaceChar(ReplaceChar(ReplaceChar(ReplaceChar(ReplaceChar(ReplaceChar(
            t, "a", ClassA), "e", ClassE), "i", ClassI), "o", ClassO), "u", ClassU),
            "c", ClassC),
        Str("ae"), AltAE), Str("oe"), AltOE)

\* format!("(?i){}", text)
Pattern(t) == Str("(?i)") \o Rewrite(t)

\* A failed compilation turned into a pattern no text matches
ok_FailClosed(result) ==
    IF result.ok THEN Some(result.regex) ELSE Some(<<"[", "]">>)

\* .map_err(|e| eprintln!("{}", e)).ok()
ok(result) == IF result.ok THEN Some(result.regex) ELSE None

\* make_query(text) as Option<Regex>
make_query(t) ==
    IF any_is_match(t) THEN None ELSE ok(Regex_new(Pattern(t)))

\* Info::is_match
is_match(info, q) ==
    IF q # None
    THEN \/ Regex_is_match(q[1], info.title)
         \/ Regex_is_match(q[1], info.subtitle)
         \/ Regex_is_match(q[1], info.author)
         \/ Regex_is_match(q[1], info.series)
         \/ \E c \in info.categories : Regex_is_match(q[1], c)
         \/ Regex_is_match(q[1], PathString(info.file.path))
    ELSE TRUE

-----------------------------------------------------------------------------
(* The derivers: extract_metadata_from_epub, extract_metadata_from_filename *)

\* str::trim_start, str::trim_end, str::trim
RECURSIVE trim_start(_)
trim_start(s) ==
    IF s # <<>> /\ IsWhitespace(Head(s)) THEN trim_start(Tail(s)) ELSE s

RECURSIVE trim_end(_)
trim_end(s) ==
    IF s # <<>> /\ IsWhitespace(s[Len(s)]) THEN trim_end(SubSeq(s, 1, Len(s) - 1)) ELSE s

trim(s) == trim_start(trim_end(s))

\* filename[start..].find(pat) as Option<usize>: the offset from start of
\* the first occurrence of pat at or after the offset start.
find(filename, start, pat) ==
    LET hits == {i \in start..(Len(filename) - Len(pat)) :
                    SubSeq(filename, i + 1, i + Len(pat)) = pat}
    IN  IF hits = {} THEN None
        ELSE Some((CHOOSE i \in hits : \A j \in hits : i <= j) - start)

\* filename[from..to]
Slice(filename, from, to) == SubSeq(filename, from + 1, to)

\* The steps of the filename grammar.  Each takes and returns the record and
\* the cursor, c = [info, start_index].
SeriesStep(filename, c) ==
    IF filename # <<>> /\ filename[1] = "("
    THEN LET start_index == c.start_index + 1
             index == find(filename, start_index, <<")">>)
         IN  IF index # None
             THEN [info |-> [c.info EXCEPT !.series =
                                trim_end(Slice(filename, start_index, start_index + index[1]))],
                   start_index |-> start_index + index[1] + 1]
             ELSE [info |-> c.info, start_index |-> start_index]
    ELSE c

AuthorStep(filename, c) ==
    LET index == find(filename, c.start_index, <<"-", " ">>)
    IN  IF index # None
        THEN [info |-> [c.info EXCEPT !.author =
                           trim(Slice(filename, c.start_index, c.start_index + index[1]))],
              start_index |-> c.start_index + index[1] + 1]
        ELSE c

TitleStep(filename, c) ==
    LET index == find(filename, c.start_index, <<"_">>)
    IN  IF index # None
        THEN [info |-> [c.info EXCEPT !.title =
                           trim_start(Slice(filename, c.start_index, c.start_index + index[1]))],
              start_index |-> c.start_index + index[1] + 1]
        ELSE c

\* The step after the title that never fills the subtitle
SubtitleStep_AlwaysTitle(filename, title_start, c) ==
    LET index == find(filename, c.start_index, <<"-">>)
    IN  IF index # None
        THEN [info |-> [c.info EXCEPT !.title =
                           trim_start(Slice(filename, c.start_index, c.start_index + index[1]))],
              start_index |-> c.start_index + index[1] + 1]
        ELSE c

SubtitleStep(filename, title_start, c) ==
    LET index == find(filename, c.start_index, <<"-">>)
    IN  IF index # None
        THEN LET found == trim_start(Slice(filename, c.start_index, c.start_index + index[1]))
             IN  [info |-> IF title_start = c.start_index
                           THEN [c.info EXCEPT !.title = found]
                           ELSE [c.info EXCEPT !.subtitle = found],
                  start_index |-> c.start_index + index[1] + 1]
        ELSE c

\* The publisher step moving the cursor when it finds no delimiter
PublisherStep_AdvancingWhenAbsent(filename, c) ==
    LET index == find(filename, c.start_index, <<"(">>)
    IN  IF index # None
        THEN [info |-> [c.info EXCEPT !.publisher =
                           trim_end(Slice(filename, c.start_index, c.start_index + index[1]))],
              start_index |-> c.start_index + index[1] + 1]
        ELSE [info |-> c.info, start_index |-> c.start_index + 1]

PublisherStep(filename, c) ==
    LET index == find(filename, c.start_index, <<"(">>)
    IN  IF index # None
        THEN [info |-> [c.info EXCEPT !.publisher =
                           trim_end(Slice(filename, c.start_index, c.start_index + index[1]))],
              start_index |-> c.start_index + index[1] + 1]
        ELSE c

YearStep(filename, c) ==
    LET index == find(filename, c.start_index, <<")">>)
    IN  IF index # None
        THEN [info |-> [c.info EXCEPT !.year =
                           Slice(filename, c.start_index, c.start_index + index[1])],
              start_index |-> c.start_index]
        ELSE c

\* The body of the loop of extract_metadata_from_filename for a record whose
\* title is empty and whose path has a file name.
ParseFilename(info, filename) ==
    LET c1 == SeriesStep(filename, [info |-> info, start_index |-> 0])
        c2 == AuthorStep(filename, c1)
        title_start == c2.start_index
        c3 == TitleStep(filename, c2)
        c4 == SubtitleStep(filename, title_start, c3)
        c5 == PublisherStep(filename, c4)
        c6 == YearStep(filename, c5)
    IN  c6.info

\* A deriver that passes over no record
Skipped_Never(info) == FALSE

\* The test at the head of the loop of extract_metadata_from_filename
Skipped(info) == info.title # <<>>

FilenameDerived(info) ==
    IF Skipped(info) THEN info
    ELSE IF file_name(info.file.path) = None THEN info
    ELSE ParseFilename(info, file_name(info.file.path)[1])

\* extract_metadata_from_filename(metadata): the catalog it leaves
extract_metadata_from_filename(md) == [i \in 1..Len(md) |-> FilenameDerived(md[i])]

\* Option<String>::unwrap_or_default
unwrap_or_default(o) == IF o = None THEN <<>> ELSE o[1]

\* The outcomes of EpubDocument::new for a file: Err, or a document whose
\* accessors each yield Some text or None.
EpubErr == [ok |-> FALSE]
EpubDoc(title, author_, year, publisher, series, series_index, language, categories) ==
    [ok |-> TRUE, title |-> title, author |-> author_, year |-> year,
     publisher |-> publisher, series |-> series, series_index |-> series_index,
     language |-> language, categories |-> categories]

\* The Ok arm of the match on EpubDocument::new
EpubFilled(info, doc, subjects_as_categories) ==
    LET i1 == [info EXCEPT !.title = unwrap_or_default(doc.title),
                           !.author = unwrap_or_default(doc.author),
                           !.year = unwrap_or_default(doc.year),
                           !.publisher = unwrap_or_default(doc.publisher),
                           !.series = unwrap_or_default(doc.series)]
        i2 == IF i1.series # <<>>
              THEN [i1 EXCEPT !.number = unwrap_or_default(doc.series_index)]
              ELSE i1
        i3 == [i2 EXCEPT !.language = unwrap_or_default(doc.language)]
    IN  IF subjects_as_categories
        THEN [i3 EXCEPT !.categories = @ \cup doc.categories]
        ELSE i3

EpubDerived(info, parsed, st) ==
    IF info.title # <<>> \/ info.file.kind # Str("epub") THEN info
    ELSE LET doc == parsed[info.file.path]
         IN  IF doc.ok THEN EpubFilled(info, doc, "Subject" \in st.category_providers)
             ELSE info

\* extract_metadata_from_epub leaving the loop at the first parser failure
extract_metadata_from_epub_AbortingOnFailure(md, st, parsed) ==
    LET failing == {i \in 1..Len(md) :
                       /\ md[i].title = <<>> /\ md[i].file.kind = Str("epub")
                       /\ ~parsed[md[i].file.path].ok}
    IN  [i \in 1..Len(md) |->
            IF \E j \in failing : j < i THEN md[i] ELSE EpubDerived(md[i], parsed, st)]

\* extract_metadata_from_epub(dir, metadata, settings): the catalog it
\* leaves, parsed giving the outcome of the container parser for each path
extract_metadata_from_epub(md, st, parsed) ==
    [i \in 1..Len(md) |-> EpubDerived(md[i], parsed, st)]

\* auto_import(dir, metadata, settings) as Result<Metadata, Error>
auto_import(f, md, st, asc, now, parsed) ==
    LET imported_metadata == import(f, md, st, asc, now)
    IN  IF ~imported_metadata.ok THEN [ok |-> FALSE, metadata |-> <<>>]
        ELSE [ok |-> TRUE,
              metadata |-> extract_metadata_from_epub(imported_metadata.metadata, st, parsed)]

-----------------------------------------------------------------------------
(* Bounds *)

MaxCatalog == 2     \* longest catalog handed to import and clean_up
MaxSort == 3        \* longest catalog handed to sort
MaxText == 3        \* longest query text drawn from the query alphabet
MaxName == 4        \* longest file name drawn from the grammar's characters
MaxBatch == 2       \* longest batch of records handed to a deriver
MaxTime == 2        \* latest value of the clock

Times == 1..MaxTime

\* Local::now() when an operation runs: the clock has reached its latest value.
Now == MaxTime

-----------------------------------------------------------------------------
(* The reconciler as a state machine: a caller holding a catalog runs         *)
(* import and clean_up against the filesystem, in any order, any number of  *)
(* times.                                                                   *)

EPUB == Str("epub")
PDF == Str("pdf")

\* A catalog record for the file at path, as an earlier import made it.
CatalogInfo(path) ==
    [DefaultInfo(1) EXCEPT !.file = [path |-> path, kind |-> file_kind(path),
                                     size |-> file_size(path)]]

CatalogPaths ==
    {<<Str("a.epub")>>, <<Str("b.pdf")>>, <<Str("d"), Str("s"), Str("e.epub")>>,
     GonePath}

\* Catalogs of at most n records with pairwise different paths.
Catalogs(pool, n) ==
    {md \in SeqsUpTo(pool, n) :
        \A i, j \in 1..Len(md) : md[i].file.path = md[j].file.path => i = j}

\* Every set of present files with every directory readable, and the full
\* set of files with one directory that cannot be read.
FsStates ==
    {[files |-> F \cup {<<TRASH_NAME, Str("g.epub")>>}, unreadable |-> {}] :
        F \in SUBSET (FileUniverse \ {<<TRASH_NAME, Str("g.epub")>>})}
    \cup {[files |-> FileUniverse, unreadable |-> {d}] : d \in DirUniverse}

SettingsStates ==
    [traverse_hidden : BOOLEAN,
     allowed_kinds : {{EPUB}, {EPUB, PDF}},
     category_providers : {{}, {"Path"}}]

Idle ==
    /\ op = "none"
    /\ imported = [ok |-> TRUE, metadata |-> <<>>]
    /\ sort_method = "none"
    /\ reverse_order = FALSE
    /\ query = None
    /\ matched = None

InitReconcile ==
    /\ Idle
    /\ fs \in FsStates
    /\ settings \in SettingsStates
    /\ metadata \in Catalogs({CatalogInfo(p) : p \in CatalogPaths}, MaxCatalog)
    /\ before = metadata
    /\ docs = <<>>
    /\ text = <<>>

Import ==
    \E asc \in BOOLEAN :
        /\ imported' = import(fs, metadata, settings, asc, Now)
        /\ before' = metadata
        /\ op' = "import"
        /\ UNCHANGED <<fs, settings, metadata, sort_method, reverse_order, text,
                       query, matched, docs>>

CleanUp ==
    /\ metadata' = clean_up(fs, metadata)
    /\ before' = metadata
    /\ op' = "clean_up"
    /\ UNCHANGED <<fs, settings, imported, sort_method, reverse_order, text,
                   query, matched, docs>>

NextReconcile == Import \/ CleanUp

SpecReconcile == InitReconcile /\ [][NextReconcile]_vars

-----------------------------------------------------------------------------
(* Claims about the reconciler *)

\* The scan import ran over: the filesystem is unchanged by import.
Scan == find_files(fs, <<>>, settings.traverse_hidden, TRUE)
Scanned == Range(Scan.files)
ScannedAllowedPaths == {fi.path : fi \in {x \in Scanned : x.kind \in settings.allowed_kinds}}

RecordsOf(md, path) == {i \in 1..Len(md) : md[i].file.path = path}

\* C1: after a successful import, a scanned file has a record in the result
\* if and only if its path is the path of no catalog record and its kind is in
\* settings.allowed_kinds; it then has exactly one record, which carries the
\* file's descriptor; the result holds no other record, and none whose path
\* belongs to a catalog record.
C1_ImportNewAllowedOnly ==
    (op = "import" /\ imported.ok) =>
        /\ Scan.ok
        /\ \A fi \in Scanned :
              LET recs == RecordsOf(imported.metadata, fi.path)
              IN  IF fi.path \notin Paths(metadata) /\ fi.kind \in settings.allowed_kinds
                  THEN /\ Cardinality(recs) = 1
                       /\ \A i \in recs : imported.metadata[i].file = fi
                  ELSE recs = {}
        /\ \A i \in 1..Len(imported.metadata) :
              /\ imported.metadata[i].file \in Scanned
              /\ imported.metadata[i].file.path \notin Paths(metadata)

\* An import that created a record, passed over a file the catalog knows and
\* passed over a file whose kind is not allowed.
C1_Witness ==
    /\ op = "import" /\ imported.ok
    /\ imported.metadata # <<>>
    /\ \E fi \in Scanned : fi.path \in Paths(metadata) /\ fi.kind \in settings.allowed_kinds
    /\ \E fi \in Scanned : fi.path \notin Paths(metadata) /\ fi.kind \notin settings.allowed_kinds

Kept == {i \in 1..Len(before) : Exists(fs, before[i].file.path)}

\* C2: clean_up leaves exactly the records whose file exists under the root,
\* in the order they had, and running clean_up again over the same
\* filesystem changes nothing.
C2_CleanUpExactAndIdempotent ==
    op = "clean_up" =>
        /\ Len(metadata) = Cardinality(Kept)
        /\ \A i \in Kept : metadata[Cardinality({j \in Kept : j <= i})] = before[i]
        /\ clean_up(fs, metadata) = metadata

\* A clean_up that removed the first record of the catalog and kept a later one.
C2_Witness ==
    /\ op = "clean_up"
    /\ Len(before) >= 2
    /\ 1 \notin Kept
    /\ metadata # <<>>

\* C10 as stated: after a successful import the catalog's paths and the
\* result's paths make up as many paths as the scan found with an allowed kind.
C10_UnionCountsScannedAllowed ==
    (op = "import" /\ imported.ok) =>
        Cardinality(Paths(metadata) \cup Paths(imported.metadata))
            = Cardinality(ScannedAllowedPaths)

\* C10 amended: the result's paths are the scanned paths of an allowed kind
\* the catalog does not hold, so the catalog's and the result's paths together
\* are the catalog's paths and the scanned paths of an allowed kind; the two
\* counts agree when every catalog path is a scanned path of an allowed kind.
C10_UnionIsKnownAndScannedAllowed ==
    (op = "import" /\ imported.ok) =>
        /\ Paths(imported.metadata) = ScannedAllowedPaths \ Paths(metadata)
        /\ Paths(metadata) \cup Paths(imported.metadata)
              = Paths(metadata) \cup ScannedAllowedPaths
        /\ Paths(metadata) \subseteq ScannedAllowedPaths =>
              Cardinality(Paths(metadata) \cup Paths(imported.metadata))
                  = Cardinality(ScannedAllowedPaths)

\* An import into a catalog that holds a path the scan did not find.
C10_Witness ==
    /\ op = "import" /\ imported.ok
    /\ imported.metadata # <<>>
    /\ ~(Paths(metadata) \subseteq ScannedAllowedPaths)
    /\ Paths(metadata) \cap ScannedAllowedPaths # {}

-----------------------------------------------------------------------------
(* The sort engine as a state machine: a caller sorts its catalog by any    *)
(* method in either direction, any number of times.                         *)

\* Three files.  The first two agree on every key but the file path: the
\* same surname, the same title once the article is stripped, the same year,
\* time of addition, kind, size and file name.
SortPaths == {<<Str("a.epub")>>, <<Str("d"), Str("a.epub")>>, <<Str("d"), Str("b.pdf")>>}

SortBib(path) ==
    IF path = <<Str("a.epub")>>
    THEN [author |-> Str("Frank Herbert"), title |-> Str("The Dune"),
          language |-> <<>>, year |-> Str("1965"), added |-> 1]
    ELSE IF path = <<Str("d"), Str("a.epub")>>
    THEN [author |-> Str("Herbert, Frank"), title |-> Str("Dune"),
          language |-> <<>>, year |-> Str("1965"), added |-> 1]
    ELSE [author |-> <<>>, title |-> Str("Le Zoo"),
          language |-> Str("french"), year |-> <<>>, added |-> MaxTime]

\* No reader state, a finished document, and documents being read at 1/2,
\* 2/4 and 3/4 of their pages.
SortReaders ==
    {None,
     Some(ReaderInfo(1, 1, 2, TRUE)),
     Some(ReaderInfo(1, 1, 2, FALSE)),
     Some(ReaderInfo(MaxTime, 2, 4, FALSE)),
     Some(ReaderInfo(MaxTime, 3, 4, FALSE))}

SortInfo(path, reader) ==
    LET bib == SortBib(path)
    IN  [CatalogInfo(path) EXCEPT !.author = bib.author, !.title = bib.title,
                                  !.language = bib.language, !.year = bib.year,
                                  !.added = bib.added, !.reader = reader]

InitSort ==
    /\ Idle
    /\ fs = [files |-> SortPaths, unreadable |-> {}]
    /\ settings \in {s \in SettingsStates : s.traverse_hidden /\ s.category_providers = {}
                                            /\ s.allowed_kinds = {EPUB, PDF}}
    /\ metadata \in Catalogs({SortInfo(p, r) : p \in SortPaths, r \in SortReaders}, MaxSort)
    /\ before = metadata
    /\ docs = <<>>
    /\ text = <<>>

Sort ==
    \E method \in SortMethods, reverse \in BOOLEAN :
        /\ metadata' = sort(metadata, method, reverse)
        /\ before' = metadata
        /\ sort_method' = method
        /\ reverse_order' = reverse
        /\ op' = "sort"
        /\ UNCHANGED <<fs, settings, imported, text, query, matched, docs>>

NextSort == Sort

SpecSort == InitSort /\ [][NextSort]_vars

-----------------------------------------------------------------------------
(* Claims about the sort engine *)

\* Two records at different positions of md compare Equal under method.
HasTies(md, method) ==
    \E i, j \in 1..Len(md) : i # j /\ sort_fn(method, md[i], md[j]) = "Equal"

\* Position in md of the record with this path.
PositionOf(md, path) == CHOOSE i \in 1..Len(md) : md[i].file.path = path

\* C3 as stated: whatever the catalog and the method, the result of sort in
\* one direction is the position-by-position reverse of the result of sort
\* in the other direction on the same input.
C3_ReverseIsExactReverse ==
    op = "sort" =>
        metadata = Reverse(sort(before, sort_method, ~reverse_order))

\* C3 amended: the result of sort in one direction is the exact reverse of
\* the result in the other direction when no two records of the catalog
\* compare Equal under the method; records that compare Equal keep the order
\* they had in the input, in either direction.
C3_ReverseIsExactReverseWithoutTies ==
    op = "sort" =>
        /\ ~HasTies(before, sort_method) =>
              metadata = Reverse(sort(before, sort_method, ~reverse_order))
        /\ \A i, j \in 1..Len(metadata) :
              (i < j /\ sort_fn(sort_method, metadata[i], metadata[j]) = "Equal") =>
                  PositionOf(before, metadata[i].file.path)
                      < PositionOf(before, metadata[j].file.path)

\* A descending sort of three records that are all different under the key,
\* which changed their order.
C3_Witness ==
    /\ op = "sort" /\ reverse_order
    /\ Len(before) = 3
    /\ ~HasTies(before, sort_method)
    /\ metadata # before

\* The order of the statuses and the fractions read, stated on their own.
StatusRank(info) ==
    IF info.reader = None THEN 1
    ELSE IF info.reader[1].finished THEN 0 ELSE 2

IsReading(info) == info.reader # None /\ ~info.reader[1].finished

FractionLeq(a, b) ==
    a.reader[1].current_page * b.reader[1].pages_count
        <= b.reader[1].current_page * a.reader[1].pages_count

\* C4: sort_progress orders two records by status as Finished < New <
\* Reading, two Finished or two New records compare Equal and two Reading
\* records compare by their fractions; a sort by Progress with reverse_order
\* false leaves every Finished record before every New one, every New one
\* before every Reading one, and the Reading ones in non-decreasing fraction.
C4_ProgressOrder ==
    /\ \A i, j \in 1..Len(metadata) :
          LET a == metadata[i]
              b == metadata[j]
          IN  sort_progress(a, b) =
                  IF StatusRank(a) # StatusRank(b)
                  THEN CmpInt(StatusRank(a), StatusRank(b))
                  ELSE IF ~IsReading(a) THEN "Equal"
                  ELSE IF FractionLeq(a, b) /\ FractionLeq(b, a) THEN "Equal"
                  ELSE IF FractionLeq(a, b) THEN "Less" ELSE "Greater"
    /\ (op = "sort" /\ sort_method = "Progress" /\ ~reverse_order) =>
          /\ Len(metadata) = Len(before) /\ Range(metadata) = Range(before)
          /\ \A i, j \in 1..Len(metadata) :
                i < j => /\ StatusRank(metadata[i]) <= StatusRank(metadata[j])
                         /\ (IsReading(metadata[i]) /\ IsReading(metadata[j])) =>
                                FractionLeq(metadata[i], metadata[j])

\* An ascending sort by Progress that put a Finished, a New and a Reading
\* record, handed over in another order, in that order.
C4_Witness ==
    /\ op = "sort" /\ sort_method = "Progress" /\ ~reverse_order
    /\ Len(metadata) = 3
    /\ StatusRank(metadata[1]) = 0
    /\ StatusRank(metadata[2]) = 1
    /\ StatusRank(metadata[3]) = 2
    /\ StatusRank(before[1]) = 2

-----------------------------------------------------------------------------
(* The query matcher as a state machine: a caller compiles a query text and *)
(* filters its catalog with the result, record by record.                   *)

QueryAlphabet == {"a", "e", "o", ".", " ", "(", ")"}

QueryTexts == SeqsUpTo(QueryAlphabet, MaxText) \cup {Str("cafe")}

\* A record that holds value in one of the places is_match looks at and
\* nothing in the others; its file is l.pdf, or value.pdf for the place "path".
QueryInfo(place, value) ==
    LET info == CatalogInfo(<<Str("l.pdf")>>)
    IN  CASE place = "title" -> [info EXCEPT !.title = value]
          [] place = "subtitle" -> [info EXCEPT !.subtitle = value]
          [] place = "author" -> [info EXCEPT !.author = value]
          [] place = "series" -> [info EXCEPT !.series = value]
          [] place = "categories" -> [info EXCEPT !.categories = {value}]
          [] place = "path" -> [info EXCEPT !.file.path = <<value \o Str(".pdf")>>]

QueryCatalog ==
    <<QueryInfo("title", <<"aelig">>),
      QueryInfo("title", <<"oelig">>),
      QueryInfo("title", Str("ae")),
      QueryInfo("title", <<"C", "A", "F", "Eacute">>),
      QueryInfo("subtitle", <<"aelig">>),
      QueryInfo("author", <<"oelig">>),
      QueryInfo("series", Str("oe")),
      QueryInfo("categories", <<"aelig">>),
      QueryInfo("path", <<"oelig">>)>>

InitQuery ==
    /\ Idle
    /\ fs = [files |-> Paths(QueryCatalog), unreadable |-> {}]
    /\ settings \in {s \in SettingsStates : s.traverse_hidden /\ s.category_providers = {}
                                            /\ s.allowed_kinds = {EPUB, PDF}}
    /\ metadata = QueryCatalog
    /\ before = metadata
    /\ docs = <<>>
    /\ text \in QueryTexts

MakeQuery ==
    /\ query' = make_query(text)
    /\ matched' = None
    /\ op' = "make_query"
    /\ UNCHANGED <<fs, settings, metadata, before, imported, sort_method,
                   reverse_order, text, docs>>

\* The caller filters the catalog with the query it made.
IsMatch ==
    /\ op # "none"
    /\ \E i \in 1..Len(metadata) :
          matched' = Some([info |-> metadata[i], result |-> is_match(metadata[i], query)])
    /\ op' = "is_match"
    /\ UNCHANGED <<fs, settings, metadata, before, imported, sort_method,
                   reverse_order, text, query, docs>>

NextQuery == MakeQuery \/ IsMatch

SpecQuery == InitQuery /\ [][NextQuery]_vars

-----------------------------------------------------------------------------
(* Claims about the query matcher *)

AllWhitespace(t) == Len(t) >= 1 /\ \A i \in 1..Len(t) : IsWhitespace(t[i])
AllDots(t) == Len(t) >= 1 /\ \A i \in 1..Len(t) : t[i] = "."

\* C6: make_query returns the match-everything sentinel None for a text that
\* is empty, is whitespace only (one character or more) or is dots only, and
\* is_match with the sentinel is true for every record.
C6_BlankTextIsSentinel ==
    /\ (op = "make_query" /\ (text = <<>> \/ AllWhitespace(text) \/ AllDots(text))) =>
          query = None
    /\ (op = "is_match" /\ query = None) => matched[1].result

\* s holds part as a contiguous part.
Contains(s, part) ==
    \E i \in 1..(Len(s) - Len(part) + 1) : SubSeq(s, i, i + Len(part) - 1) = part

\* t with every digraph ae and oe replaced by its ligature.
Ligated(t) == ReplaceStr(ReplaceStr(t, Str("ae"), <<"aelig">>), Str("oe"), <<"oelig">>)

\* C7: in the pattern make_query compiles, an ae of the text has become the
\* alternation (ae|æ) and an oe the alternation (oe|œ), so that the query
\* matches a field that holds the ligature where the text holds the digraph.
C7_DigraphMatchesLigature ==
    /\ (op = "make_query" /\ query # None) =>
          /\ Contains(text, Str("ae")) => Contains(query[1], AltAE)
          /\ Contains(text, Str("oe")) => Contains(query[1], AltOE)
    /\ (op = "is_match" /\ query # None /\ Ligated(text) # text
            /\ matched[1].info.title = Ligated(text)) =>
          matched[1].result

\* The parentheses of t do not balance.
RECURSIVE Depth(_, _)
Depth(t, n) == IF n = 0 THEN 0
               ELSE Depth(t, n - 1) + (IF t[n] = "(" THEN 1 ELSE IF t[n] = ")" THEN -1 ELSE 0)
Unbalanced(t) == Depth(t, Len(t)) # 0 \/ \E n \in 1..Len(t) : Depth(t, n) < 0

\* The text is no sentinel text and its rewritten pattern does not compile.
CompileFails(t) == ~any_is_match(t) /\ ~Regex_new(Pattern(t)).ok

\* C8: for a text that is no sentinel text and whose rewritten pattern does
\* not compile (as when its parentheses do not balance), make_query returns
\* None, and is_match with that result is true for every record.
C8_FailOpen ==
    /\ Unbalanced(text) => CompileFails(text)
    /\ (op \in {"make_query", "is_match"} /\ CompileFails(text)) => query = None
    /\ (op = "is_match" /\ CompileFails(text)) => matched[1].result

\* A record that holds none of the characters of a text that does not
\* compile, and that the query made of this text matched.
C8_Witness ==
    /\ op = "is_match"
    /\ Unbalanced(text) /\ CompileFails(text)
    /\ Contains(text, <<"a">>)
    /\ matched[1].info.title = <<"oelig">>
    /\ query = None
    /\ matched[1].result

-----------------------------------------------------------------------------
(* The derivers as a state machine: a caller runs the two derivers over a   *)
(* batch of records, in any order, any number of times.                     *)

\* File names over the delimiters of the grammar, a blank and a letter.
NameAlphabet == {"(", ")", "_", "-", " ", "x"}
GrammarNames == SeqsUpTo(NameAlphabet, MaxName) \ {<<>>}

\* File names of the shape "(S) A - T_U-P(Y)" followed by ext.
FieldTexts == {<<>>, Str("x"), Str(" x "), Str("x y")}
Extensions == {<<>>, Str(".epub")}
ShapeName(S, A, T, U, P, Y, ext) ==
    <<"(">> \o S \o Str(") ") \o A \o Str(" - ") \o T \o <<"_">> \o U \o <<"-">>
        \o P \o <<"(">> \o Y \o <<")">> \o ext
ShapeNames ==
    {ShapeName(S, A, T, U, P, Y, ext) :
        S \in FieldTexts, A \in FieldTexts, T \in FieldTexts, U \in FieldTexts,
        P \in FieldTexts, Y \in FieldTexts, ext \in Extensions}

DuneName == Str("(Dune Series) Frank Herbert - Dune_A Novel-Ace(1965)")

\* A record for the file called name, with nothing derived yet.
FreshInfo(name) == CatalogInfo(<<name>>)

\* A record some of whose bibliographic fields (those of the set filled) a
\* user or an earlier pass has set.
Prefilled(name, filled) ==
    LET fresh == FreshInfo(name)
    IN  [f \in DOMAIN fresh |-> IF f \in filled THEN Str("E") ELSE fresh[f]]

\* Nothing set, everything set, and each single field set.
Fillings == {{}, BibFields} \cup {{f} : f \in BibFields}

BatchNames == {DuneName \o Str(".epub"), Str("x_x-x.pdf"), Str("x - x.epub")}

\* What the container parser may yield: a failure, a document with every
\* accessor failing, one with all of them, and one with a series index but no
\* series.
DocOutcomes ==
    {EpubErr,
     EpubDoc(None, None, None, None, None, None, None, {}),
     EpubDoc(Some(Str("T")), Some(Str("A")), Some(Str("1")), Some(Str("P")),
             Some(Str("S")), Some(Str("1")), Some(Str("L")), {Str("C")}),
     EpubDoc(Some(Str("T")), None, None, None, None, Some(Str("1")), None, {Str("C")})}

\* Batches of one fresh record of any name, batches of one record of a few
\* names with any filling, and batches of two records or more of these few
\* names, each fresh or with every field set.
DeriveBatches ==
    {<<FreshInfo(n)>> : n \in GrammarNames \cup ShapeNames \cup {DuneName}}
    \cup {<<Prefilled(n, filled)>> : n \in BatchNames, filled \in Fillings}
    \cup Catalogs({Prefilled(n, filled) : n \in BatchNames, filled \in {{}, BibFields}},
                  MaxBatch)

InitDerive ==
    /\ Idle
    /\ metadata \in DeriveBatches
    /\ before = metadata
    /\ fs = [files |-> Paths(metadata), unreadable |-> {}]
    /\ settings \in [traverse_hidden : {TRUE}, allowed_kinds : {{EPUB, PDF}},
                     category_providers : {{}, {"Subject"}}]
    /\ docs \in [{p \in Paths(metadata) : file_kind(p) = EPUB} -> DocOutcomes]
    /\ text = <<>>

ExtractEpub ==
    /\ metadata' = extract_metadata_from_epub(metadata, settings, docs)
    /\ before' = metadata
    /\ op' = "extract_metadata_from_epub"
    /\ UNCHANGED <<fs, settings, imported, sort_method, reverse_order, text,
                   query, matched, docs>>

ExtractFilename ==
    /\ metadata' = extract_metadata_from_filename(metadata)
    /\ before' = metadata
    /\ op' = "extract_metadata_from_filename"
    /\ UNCHANGED <<fs, settings, imported, sort_method, reverse_order, text,
                   query, matched, docs>>

NextDerive == ExtractEpub \/ ExtractFilename

SpecDerive == InitDerive /\ [][NextDerive]_vars

-----------------------------------------------------------------------------
(* Claims about the derivers *)

Derivers == {"extract_metadata_from_epub", "extract_metadata_from_filename"}

\* C5 as stated: a bibliographic field that is not empty when a deriver runs
\* has the same value afterwards, whatever the other fields of the record.
C5_NonEmptyFieldsKept ==
    op \in Derivers =>
        \A i \in 1..Len(before) : \A f \in BibFields :
            before[i][f] # <<>> => metadata[i][f] = before[i][f]

\* C5 amended: a record whose title is not empty when a deriver runs is the
\* same record afterwards, and the derivers add and remove no record.  (A
\* record whose title is empty may have its other fields overwritten, empty
\* or not.)
C5_TitledRecordsKept ==
    op \in Derivers =>
        /\ Len(metadata) = Len(before)
        /\ \A i \in 1..Len(before) :
               before[i].title # <<>> => metadata[i] = before[i]

\* The file name parser passed over a record that had a title, no author, and
\* a name the grammar finds an author in, and the container parser passed
\* over a record that had a title and a document with an author to give.
C5_Witness ==
    \E i \in 1..Len(before) :
        /\ before[i].title # <<>> /\ before[i].author = <<>>
        /\ metadata[i] = before[i]
        /\ \/ /\ op = "extract_metadata_from_filename"
              /\ AuthorStep(before[i].file.path[1], [info |-> before[i], start_index |-> 0]).info.author # <<>>
           \/ /\ op = "extract_metadata_from_epub"
              /\ before[i].file.kind = EPUB
              /\ docs[before[i].file.path].ok
              /\ docs[before[i].file.path].author # None

IsPrefix(p, s) == Len(p) <= Len(s) /\ SubSeq(s, 1, Len(p)) = p

\* C9: for a record with an empty title whose file name is "(S) A - T_U-P(Y)"
\* followed by an extension or by nothing, S, A, T, U, P and Y holding none
\* of the delimiters, extract_metadata_from_filename sets series to S less
\* its trailing blanks, author to A less the blanks at both ends, title to T
\* and subtitle to U less their leading blanks, publisher to P less its
\* trailing blanks and year to Y; the name of the Dune example gives the
\* six values the specification lists.
C9_ShapeParsed ==
    op = "extract_metadata_from_filename" =>
        \A i \in 1..Len(before) :
            before[i].title = <<>> =>
                LET name == before[i].file.path[1]
                    info == metadata[i]
                IN  /\ \A ext \in Extensions :
                          name = DuneName \o ext =>
                              /\ info.series = Str("Dune Series")
                              /\ info.author = Str("Frank Herbert")
                              /\ info.title = Str("Dune")
                              /\ info.subtitle = Str("A Novel")
                              /\ info.publisher = Str("Ace")
                              /\ info.year = Str("1965")
                    /\ \A S \in FieldTexts :
                        LET n1 == <<"(">> \o S \o Str(") ")
                        IN  IsPrefix(n1, name) =>
                       \A A \in FieldTexts :
                        LET n2 == n1 \o A \o Str(" - ")
                        IN  IsPrefix(n2, name) =>
                       \A T \in FieldTexts :
                        LET n3 == n2 \o T \o <<"_">>
                        IN  IsPrefix(n3, name) =>
                       \A U \in FieldTexts :
                        LET n4 == n3 \o U \o <<"-">>
                        IN  IsPrefix(n4, name) =>
                       \A P \in FieldTexts :
                        LET n5 == n4 \o P \o <<"(">>
                        IN  IsPrefix(n5, name) =>
                       \A Y \in FieldTexts, ext \in Extensions :
                          name = n5 \o Y \o <<")">> \o ext =>
                              /\ name = ShapeName(S, A, T, U, P, Y, ext)
                              /\ info.series = trim_end(S)
                              /\ info.author = trim(A)
                              /\ info.title = trim_start(T)
                              /\ info.subtitle = trim_start(U)
                              /\ info.publisher = trim_end(P)
                              /\ info.year = Y

\* The file name parser ran over a fresh record named as the Dune example
\* with an extension, and filled its subtitle.
C9_Witness ==
    /\ op = "extract_metadata_from_filename"
    /\ Len(before) = 1
    /\ before[1] = FreshInfo(DuneName)
    /\ metadata[1].subtitle = Str("A Novel")
    /\ metadata[1].year = Str("1965")

\* Whether extract_metadata_from_epub hands record i of the batch it ran
\* over to the container parser.
Parsed(i) == before[i].title = <<>> /\ before[i].file.kind = EPUB

\* C12: extract_metadata_from_epub leaves a record the container parser
\* fails on as it was and goes on to the records after it, filling each one
\* whose own parse succeeds from its document; a record with a title, or of
\* a kind other than epub, is left as it was whatever the parser would
\* yield for it.
C12_ParserFailureIsLocal ==
    op = "extract_metadata_from_epub" =>
        /\ Len(metadata) = Len(before)
        /\ \A i \in 1..Len(before) :
              IF ~Parsed(i) \/ ~docs[before[i].file.path].ok
              THEN metadata[i] = before[i]
              ELSE LET doc == docs[before[i].file.path]
                       info == metadata[i]
                   IN  /\ info.title = unwrap_or_default(doc.title)
                       /\ info.author = unwrap_or_default(doc.author)
                       /\ info.year = unwrap_or_default(doc.year)
                       /\ info.publisher = unwrap_or_default(doc.publisher)
                       /\ info.series = unwrap_or_default(doc.series)
                       /\ info.language = unwrap_or_default(doc.language)
                       /\ info.number = IF doc.series = None \/ doc.series[1] = <<>>
                                        THEN before[i].number
                                        ELSE unwrap_or_default(doc.series_index)
                       /\ info.categories = IF "Subject" \in settings.category_providers
                                            THEN before[i].categories \cup doc.categories
                                            ELSE before[i].categories
                       /\ \A f \in {"subtitle"} \cup (DOMAIN info \ (BibFields \cup {"categories"})) :
                              info[f] = before[i][f]

\* A batch whose first record the parser failed on and whose second record
\* it filled.
C12_Witness ==
    /\ op = "extract_metadata_from_epub"
    /\ Len(before) = 2
    /\ Parsed(1) /\ ~docs[before[1].file.path].ok
    /\ Parsed(2) /\ docs[before[2].file.path].ok
    /\ metadata[1] = before[1]
    /\ metadata[2].title = Str("T") /\ metadata[2] # before[2]

\* The record and the cursor before the first step of the grammar and after
\* each of its six steps, for a record of the batch the parser ran over.
Cursors(info) ==
    LET filename == info.file.path[1]
        c0 == [info |-> info, start_index |-> 0]
        c1 == SeriesStep(filename, c0)
        c2 == AuthorStep(filename, c1)
        c3 == TitleStep(filename, c2)
        c4 == SubtitleStep(filename, c2.start_index, c3)
        c5 == PublisherStep(filename, c4)
        c6 == YearStep(filename, c5)
    IN  <<c0, c1, c2, c3, c4, c5, c6>>

Absent(filename, c, pat) == find(filename, c.start_index, pat) = None

\* Steps two to six of the grammar: a step whose delimiter is not found from
\* the cursor onward leaves the cursor and every field as they were.
LaterStepsSkippedWhole(info) ==
    LET filename == info.file.path[1]
        cs == Cursors(info)
    IN  /\ Absent(filename, cs[2], <<"-", " ">>) => cs[3] = cs[2]
        /\ Absent(filename, cs[3], <<"_">>) => cs[4] = cs[3]
        /\ Absent(filename, cs[4], <<"-">>) => cs[5] = cs[4]
        /\ Absent(filename, cs[5], <<"(">>) => cs[6] = cs[5]
        /\ Absent(filename, cs[6], <<")">>) => cs[7] = cs[6]

\* A name that begins with "(" and holds no ")".
OpenedOnly(filename) ==
    /\ filename # <<>> /\ filename[1] = "("
    /\ \A k \in 1..Len(filename) : filename[k] # ")"

\* C13 as stated: every step of the grammar whose delimiter is not found from
\* the cursor onward leaves the cursor and every field as they were; for a
\* name that begins with "(" and holds no ")" the author step scans from
\* index 0, and the author it finds begins with the "(".
C13_SkippedStepsLeaveCursor ==
    op = "extract_metadata_from_filename" =>
        \A i \in 1..Len(before) :
            before[i].title = <<>> =>
                LET filename == before[i].file.path[1]
                    cs == Cursors(before[i])
                IN  /\ metadata[i] = cs[7].info
                    /\ LaterStepsSkippedWhole(before[i])
                    /\ (filename[1] # "(" \/ OpenedOnly(filename)) => cs[2] = cs[1]
                    /\ (OpenedOnly(filename) /\ ~Absent(filename, cs[1], <<"-", " ">>)) =>
                           /\ metadata[i].author =
                                  trim(Slice(filename, 0, find(filename, 0, <<"-", " ">>)[1]))
                           /\ Head(metadata[i].author) = "("

\* C13 amended: steps two to six of the grammar, when their delimiter is not
\* found from the cursor onward, leave the cursor and every field as they
\* were, and so does the series step for a name that does not begin with
\* "(".  For a name that begins with "(" and holds no ")", the series step
\* sets no field but moves the cursor past the "(": the author step scans
\* from index 1, and the author it finds is the text between the "(" and the
\* "- ", less the blanks at both ends.
C13_SkippedStepsLeaveCursorButSeries ==
    op = "extract_metadata_from_filename" =>
        \A i \in 1..Len(before) :
            before[i].title = <<>> =>
                LET filename == before[i].file.path[1]
                    cs == Cursors(before[i])
                IN  /\ metadata[i] = cs[7].info
                    /\ LaterStepsSkippedWhole(before[i])
                    /\ filename[1] # "(" => cs[2] = cs[1]
                    /\ OpenedOnly(filename) =>
                           /\ cs[2] = [info |-> before[i], start_index |-> 1]
                           /\ metadata[i].series = before[i].series
                           /\ ~Absent(filename, cs[2], <<"-", " ">>) =>
                                  metadata[i].author =
                                      trim(Slice(filename, 1,
                                                 1 + find(filename, 1, <<"-", " ">>)[1]))

\* The parser ran over a fresh record named "(x- ": it found no series, and
\* the author x.
C13_Witness ==
    /\ op = "extract_metadata_from_filename"
    /\ Len(before) = 1
    /\ before[1] = FreshInfo(Str("(x- "))
    /\ metadata[1].series = <<>>
    /\ metadata[1].author = Str("x")

-----------------------------------------------------------------------------
(* The scanner under failure as a state machine: a caller holding a catalog *)
(* runs import and auto_import over a filesystem some of whose directories  *)
(* cannot be read.                                                          *)

\* The full set of files or none but the reserved one, with any set of
\* directories that cannot be read.
ScanFsStates ==
    [files : {FileUniverse, {<<TRASH_NAME, Str("g.epub")>>}},
     unreadable : SUBSET DirUniverse]

\* The container parser failing on every file, or yielding the same document
\* for every file.
ScanDocs ==
    {[p \in {q \in FileUniverse : file_kind(q) = EPUB} |-> o] :
        o \in {EpubErr,
               EpubDoc(Some(Str("T")), Some(Str("A")), None, None, None, None, None, {})}}

InitScan ==
    /\ Idle
    /\ fs \in ScanFsStates
    /\ settings \in SettingsStates
    /\ metadata \in Catalogs({CatalogInfo(p) : p \in CatalogPaths}, MaxCatalog)
    /\ before = metadata
    /\ docs \in ScanDocs
    /\ text = <<>>

AutoImport ==
    \E asc \in BOOLEAN :
        /\ imported' = auto_import(fs, metadata, settings, asc, Now, docs)
        /\ before' = metadata
        /\ op' = "auto_import"
        /\ UNCHANGED <<fs, settings, metadata, sort_method, reverse_order, text,
                       query, matched, docs>>

NextScan == Import \/ AutoImport

SpecScan == InitScan /\ [][NextScan]_vars

-----------------------------------------------------------------------------
(* Claims about the scanner under failure *)

\* Whether the scanner passes over a directory of this name.
ScanSkipped(name, traverse_hidden) ==
    (~traverse_hidden /\ name[1] = ".") \/ name \in RESERVED_DIRECTORIES

\* The directories the scanner reads when nothing fails: the root, and the
\* directories under it none of whose components is passed over.
Descended ==
    {d \in DirUniverse : \A k \in 1..Len(d) : ~ScanSkipped(d[k], settings.traverse_hidden)}

ReadFails == Descended \cap fs.unreadable # {}

\* C11: when the root or a directory the scanner descends into cannot be
\* read, find_files, import and auto_import return an error, which carries
\* no file descriptor and no record, and the caller's catalog is as it was;
\* they return a successful result exactly when every descended directory
\* was read.
C11_ScanFailureIsFatal ==
    op \in {"import", "auto_import"} =>
        /\ \A asc \in BOOLEAN :
              LET scan == find_files(fs, <<>>, settings.traverse_hidden, asc)
              IN  /\ scan.ok = ~ReadFails
                  /\ ReadFails => scan.files = <<>>
        /\ imported.ok = ~ReadFails
        /\ ReadFails => imported.metadata = <<>>
        /\ metadata = before

\* An auto_import that failed on a directory two levels down, in a
\* filesystem whose root holds an importable file the catalog does not know,
\* with a catalog that is not empty.
C11_Witness ==
    /\ op = "auto_import"
    /\ ~imported.ok
    /\ fs.unreadable = {<<Str("d"), Str("s")>>}
    /\ <<Str("a.epub")>> \in fs.files \ Paths(metadata)
    /\ metadata # <<>>

=============================================================================
